---------------------------- MODULE Spec2Model ----------------------------
(***************************************************************************)
(* Model of lib/portlayer/exec/base.go: containerBase, the snapshot of a   *)
(* container VM's state and the lifecycle operations refresh, start, stop, *)
(* kill, shutdown and poweroff.                                            *)
(*                                                                         *)
(* One caller runs one lifecycle operation at a time (base.go:48-51).  An  *)
(* operation is a sequence of blocking requests to the infrastructure; an  *)
(* action of the model is the code that runs between the return of one     *)
(* request and the issue of the next.  The infrastructure, the guest and   *)
(* the caller's context are the environment: their answers are chosen      *)
(* nondeterministically.                                                   *)
(***************************************************************************)
EXTENDS Integers, Sequences, FiniteSets, TLC

VARIABLES
    \* ---- the infrastructure and the guest
    power,        \* the VM's actual power state
    infraCfg,     \* the VM's config on the infrastructure (ExtraConfig)
    \* ---- the containerBase (the snapshot), base.go:52-62
    vm,           \* instance handle, NoVM when nil
    Config,       \* *types.VirtualMachineConfigInfo of the last refresh
    Runtime,      \* *types.VirtualMachineRuntimeInfo of the last refresh
    ExecConfig,   \* *executor.ExecutorConfig decoded from Config
    \* ---- the call in progress
    op,           \* the operation the caller invoked
    pc,           \* the blocking request the call is waiting on
    wait,         \* local `wait` of shutdown / kill, in seconds
    stopSigs,     \* local `stop` of shutdown: the signal sequence
    sigIdx,       \* position of the range loop in stopSigs
    cancelled,    \* the caller cancelled the parent context of the call
    ret,          \* the error the operation returned
    \* ---- history of the call
    calls,        \* the requests made to the infrastructure, in order, each
                  \* with its arguments and, once it returned, its result
    sdRet,        \* what shutdown returned (to stop, or to the caller)
    guestOff,     \* whether the guest shut itself down during the call
    lastPoweroffNil, \* the caller's previous call was a poweroff that returned nil
    entry,        \* the containerBase as it was when the call was made
    waitTime,     \* the waitTime argument of the call, <<>> when nil or none
    \* ---- refresh's copy "*c = *base" and a concurrent reader of *c
    base,         \* the new containerBase that updates returned to refresh
    written,      \* the fields of *c the copy has overwritten so far
    reads         \* the fields a concurrent reader has read, with their values

vars == <<power, infraCfg, vm, Config, Runtime, ExecConfig, op, pc, wait,
          stopSigs, sigIdx, cancelled, ret, calls, sdRet, guestOff,
          lastPoweroffNil, entry, waitTime, base, written, reads>>

snapshot == <<vm, Config, Runtime, ExecConfig>>
callvars == <<wait, stopSigs, sigIdx>>
infra    == <<power, infraCfg>>
callargs == <<entry, waitTime>>
copyvars == <<base, written, reads>>

---------------------------------------------------------------------------
\* Bounds of the model

\* the infrastructure's config changes at most this many times
MaxGen == 2

---------------------------------------------------------------------------
\* Values

poweredOn  == "poweredOn"
poweredOff == "poweredOff"
suspended  == "suspended"
PowerStates == {poweredOn, poweredOff, suspended}

SIGTERM == "TERM"
SIGKILL == "KILL"
\* values of Sessions[ID].StopSignal; "" is unset
StopSignalValues == {"", "INT", SIGKILL}

NoVM == "nil"
VM1  == "vm-1"
containerID == "c1"

\* the fault message key of a power-off task cancelled by a guest shutdown
vmNotSuspendedKey == "vmNotSuspendedKey"
otherKey          == "msg.other"

\* errors
NoErr    == [type |-> "nil"]
NotRun   == [type |-> "none"]
Pending  == [type |-> "pending"]
Canceled == [type |-> "context.Canceled"]
DeadlineExceeded == [type |-> "context.DeadlineExceeded"]
\* an error of the infrastructure client in request req
InfraErr(req) == [type |-> "infrastructure", req |-> req]
\* a NotYetExistError that does not name the container
NotYetExistError_anonymous(id) == [type |-> "NotYetExist", ID |-> ""]

NotYetExistError(id) == [type |-> "NotYetExist", ID |-> id]
TaskError(fault) == [type |-> "task.Error", fault |-> fault]

InvalidPowerState(existing) ==
    [kind |-> "InvalidPowerState", ExistingState |-> existing, FaultMessage |-> <<>>]
GenericVmConfigFault(msgs) ==
    [kind |-> "GenericVmConfigFault", ExistingState |-> "", FaultMessage |-> msgs]
OtherFault ==
    [kind |-> "Other", ExistingState |-> "", FaultMessage |-> <<>>]

\* the *int32 waitTime of stop and shutdown: <<>> is nil
WaitTimes == {<<>>, <<-1>>, <<0>>, <<1>>, <<3>>}

NilConfig  == [gen |-> -1, StopSignal |-> ""]
NilRuntime == [PowerState |-> "nil"]
\* no containerBase: no call is in progress
NoBase == [vm |-> "none"]

---------------------------------------------------------------------------
\* Pure parts of the code

\* extraconfig.Decode into a fresh ExecutorConfig (base.go:115-119, 72-76):
\* the container's ID and its session's stop signal
Decode(cfg) ==
    IF cfg = NilConfig
    THEN [ID |-> "", StopSignal |-> "", gen |-> -1]
    ELSE [ID |-> containerID, StopSignal |-> cfg.StopSignal, gen |-> cfg.gen]

\* newBase (base.go:64-79)
newBase(v, c, r) ==
    [vm |-> v, Config |-> c, Runtime |-> r, ExecConfig |-> Decode(c)]

\* the default window of shutdown (base.go:242) and the window of kill (base.go:210)
defaultWait == 10
killWait    == 10

\* a shutdown that takes a waitTime of zero as a window
waitWindow_zeroAllowed(wt) ==
    IF wt # <<>> /\ wt[1] >= 0 THEN wt[1] ELSE defaultWait

\* shutdown's window (base.go:242-245)
waitWindow(wt) ==
    IF wt # <<>> /\ wt[1] > 0 THEN wt[1] ELSE defaultWait

\* a shutdown that sends KILL first
stopSignals_killFirst(ec) ==
    <<SIGKILL, IF ec.StopSignal = "" THEN SIGTERM ELSE ec.StopSignal>>

\* a shutdown that sends the graceful signal twice before KILL
stopSignals_retrying(ec) ==
    <<IF ec.StopSignal = "" THEN SIGTERM ELSE ec.StopSignal,
      IF ec.StopSignal = "" THEN SIGTERM ELSE ec.StopSignal, SIGKILL>>

\* shutdown's signal sequence (base.go:247-251)
stopSignals(ec) ==
    <<IF ec.StopSignal = "" THEN SIGTERM ELSE ec.StopSignal, SIGKILL>>

\* waitForPowerState (base.go:320-331): ctxErr is timeout.Err(), the state of
\* the context derived with the deadline; err is what vm.WaitForPowerState
\* returned.  The result is <<timeout, err>>.
waitForPowerState(ctxErr, err) ==
    IF err # NoErr THEN <<ctxErr # NoErr, err>> ELSE <<FALSE, NoErr>>

\* a poweroff that absorbs no InvalidPowerState fault
poweroffResult_strict(err) ==
    IF err = NoErr THEN NoErr
    ELSE IF err.type = "task.Error"
            /\ err.fault.kind = "GenericVmConfigFault"
            /\ Len(err.fault.FaultMessage) > 0
            /\ err.fault.FaultMessage[1] = vmNotSuspendedKey
    THEN NoErr
    ELSE err

\* a poweroff that absorbs every InvalidPowerState fault
poweroffResult_anyState(err) ==
    IF err = NoErr THEN NoErr
    ELSE IF err.type = "task.Error"
            /\ (err.fault.kind = "InvalidPowerState"
                \/ (err.fault.kind = "GenericVmConfigFault"
                    /\ Len(err.fault.FaultMessage) > 0
                    /\ err.fault.FaultMessage[1] = vmNotSuspendedKey))
    THEN NoErr
    ELSE err

\* a poweroff that does not recognise the cancelled task
poweroffResult_noGuestShutdown(err) ==
    IF err = NoErr THEN NoErr
    ELSE IF err.type = "task.Error"
            /\ err.fault.kind = "InvalidPowerState"
            /\ err.fault.ExistingState = poweredOff
    THEN NoErr
    ELSE err

\* the fault classification of poweroff (base.go:288-317): the error poweroff
\* returns for the error err of WaitForResult(PowerOff)
poweroffResult(err) ==
    IF err = NoErr THEN NoErr
    ELSE IF err.type = "task.Error"
    THEN CASE err.fault.kind = "InvalidPowerState" ->
                  IF err.fault.ExistingState = poweredOff THEN NoErr ELSE err
           [] err.fault.kind = "GenericVmConfigFault" ->
                  IF Len(err.fault.FaultMessage) > 0
                     /\ err.fault.FaultMessage[1] = vmNotSuspendedKey
                  THEN NoErr ELSE err
           [] OTHER -> err
    ELSE err

\* a start that reports a failure of the guest in its own words
startResult_generic(detail, err) ==
    IF err # NoErr THEN [type |-> "unable to wait for process launch status", cause |-> err]
    ELSE IF detail # "true" THEN [type |-> "errors.New", text |-> "process launch failed"]
    ELSE NoErr

\* start's result for the value read from the readiness key (base.go:174-182)
startResult(detail, err) ==
    IF err # NoErr THEN [type |-> "unable to wait for process launch status", cause |-> err]
    ELSE IF detail # "true" THEN [type |-> "errors.New", text |-> detail]
    ELSE NoErr

---------------------------------------------------------------------------
\* The log of requests

Request(req, arg) ==
    [req |-> req, arg |-> arg, err |-> Pending, timeout |-> FALSE, detail |-> ""]

\* the call issues a request to the infrastructure
Issue(req, arg) == calls' = Append(calls, Request(req, arg))

\* the request in flight returned
Answered(err, timeout, detail) ==
    [calls EXCEPT ![Len(calls)] =
        [@ EXCEPT !.err = err, !.timeout = timeout, !.detail = detail]]

OfKind(req) == SelectSeq(calls, LAMBDA c : c.req = req)

\* the signals passed to startGuestProgram, in order
dispatched == [i \in 1..Len(OfKind("startGuestProgram")) |->
                  OfKind("startGuestProgram")[i].arg]
\* the waitForPowerState calls, in order
waits      == OfKind("waitForPowerState")
\* the PowerOff tasks submitted
poweroffs  == OfKind("PowerOff")
\* what WaitForResult(PowerOff) returned
taskErr    == IF Len(poweroffs) = 0 THEN NotRun ELSE poweroffs[Len(poweroffs)].err

---------------------------------------------------------------------------
\* The environment: what the infrastructure answers

\* startGuestProgram (base.go:124-149): the guest operations of the
\* infrastructure succeed or fail; they fail on a cancelled context
StartGuestProgramResults ==
    IF cancelled THEN {Canceled} ELSE {NoErr, InfraErr("startGuestProgram")}

\* vm.WaitForPowerState under the context derived with the deadline
\* (base.go:322-325): the target state is observed, the deadline elapses, the
\* caller cancels the parent context, or the wait fails for another reason
WaitForPowerStateOutcomes ==
    IF cancelled
    THEN {[ctxErr |-> Canceled, err |-> Canceled]}
    ELSE {[ctxErr |-> DeadlineExceeded, err |-> DeadlineExceeded],
          [ctxErr |-> NoErr, err |-> InfraErr("waitForPowerState")]}
         \cup (IF power = poweredOff
               THEN {[ctxErr |-> NoErr, err |-> NoErr]} ELSE {})

\* faults of a power-off task that have nothing to do with the power state
UnrelatedFaults ==
    {GenericVmConfigFault(<<>>), GenericVmConfigFault(<<otherKey>>),
     GenericVmConfigFault(<<otherKey, vmNotSuspendedKey>>), OtherFault}

\* WaitForResult(PowerOff) (base.go:284-286, and the comments at 290 and 302):
\* the task powers the VM off; on a VM that is already off it fails with
\* InvalidPowerState; when the guest shuts down while the task runs it is
\* cancelled with the vmNotSuspendedKey fault message
PowerOffOutcomes ==
    IF cancelled
    THEN {[err |-> Canceled, power |-> p] :
             p \in IF power = poweredOn THEN {poweredOn, poweredOff} ELSE {power}}
    ELSE {[err |-> InfraErr("PowerOff"), power |-> power]} \cup
         CASE power = poweredOn ->
                {[err |-> NoErr, power |-> poweredOff]} \cup
                {[err |-> TaskError(f), power |-> power] : f \in UnrelatedFaults}
           [] power = poweredOff /\ guestOff = "duringTask" ->
                {[err |-> TaskError(GenericVmConfigFault(m)), power |-> power] :
                    m \in {<<vmNotSuspendedKey>>, <<vmNotSuspendedKey, otherKey>>}}
                \cup {[err |-> TaskError(InvalidPowerState(poweredOff)), power |-> power]}
           [] power = poweredOff /\ guestOff # "duringTask" ->
                {[err |-> TaskError(InvalidPowerState(poweredOff)), power |-> power]}
           [] OTHER ->
                {[err |-> TaskError(InvalidPowerState(power)), power |-> power],
                 [err |-> NoErr, power |-> poweredOff]}

\* WaitForResult(PowerOn) (base.go:158-160)
PowerOnOutcomes ==
    IF cancelled
    THEN {[err |-> Canceled, power |-> power]}
    ELSE {[err |-> InfraErr("PowerOn"), power |-> power]} \cup
         IF power = poweredOn
         THEN {[err |-> TaskError(InvalidPowerState(poweredOn)), power |-> power]}
         ELSE {[err |-> NoErr, power |-> poweredOn],
               [err |-> TaskError(OtherFault), power |-> power]}

\* vm.WaitForKeyInExtraConfig under propertyCollectorTimeout (base.go:170-173)
WaitForKeyOutcomes ==
    IF cancelled
    THEN {[detail |-> "", err |-> Canceled]}
    ELSE {[detail |-> "", err |-> DeadlineExceeded],
          [detail |-> "", err |-> InfraErr("WaitForKeyInExtraConfig")]}
         \cup {[detail |-> d, err |-> NoErr] : d \in {"true", "false", "exec failed"}}

\* no response: the request failed
NoResponse == [Config |-> NilConfig, Runtime |-> NilRuntime]

\* vm.Properties (base.go:100, 107): on success the mo.VirtualMachine o holds
\* the config and the runtime of the VM as of one moment; the config of a VM
\* can be unset (nil)
PropertiesOutcomes ==
    IF cancelled
    THEN {[err |-> Canceled, o |-> NoResponse]}
    ELSE {[err |-> InfraErr("Properties"), o |-> NoResponse]} \cup
         {[err |-> NoErr, o |-> [Config |-> c, Runtime |-> [PowerState |-> power]]] :
             c \in {infraCfg, NilConfig}}

---------------------------------------------------------------------------
\* Initial state: a containerBase built by newBase, no call in progress

Init ==
    /\ power \in PowerStates
    /\ infraCfg \in {[gen |-> 0, StopSignal |-> s] : s \in StopSignalValues}
    /\ \E v \in {NoVM, VM1} :
      \E c \in {NilConfig, infraCfg} :
         LET b0 == IF v = NoVM
                     THEN newBase(NoVM, c, NilRuntime)
                     ELSE newBase(VM1, infraCfg, [PowerState |-> power])
         IN /\ vm = b0.vm
            /\ Config = b0.Config
            /\ Runtime = b0.Runtime
            /\ ExecConfig = b0.ExecConfig
    /\ op = "none"
    /\ pc = "idle"
    /\ wait = 0
    /\ stopSigs = <<>>
    /\ sigIdx = 0
    /\ cancelled = FALSE
    /\ ret = NotRun
    /\ calls = <<>>
    /\ sdRet = NotRun
    /\ guestOff = "no"
    /\ lastPoweroffNil = FALSE
    /\ entry = NoBase
    /\ waitTime = <<>>
    /\ base = NoBase
    /\ written = {}
    /\ reads = {}

\* the caller invokes an operation of the containerBase with waitTime wt
Called(wt) ==
    /\ entry' = [vm |-> vm, Config |-> Config, Runtime |-> Runtime,
                 ExecConfig |-> ExecConfig]
    /\ waitTime' = wt
    /\ UNCHANGED copyvars

\* the operation returns e to its caller
Returns(e) == ret' = e /\ pc' = "done"

\* every operation's first statement: "make sure we have vm"
\* (base.go:103-105, 153-155, 187-189, 206-208, 238-240, 280-282)
NotYetExist ==
    /\ vm = NoVM
    /\ Returns(NotYetExistError(ExecConfig.ID))
    /\ UNCHANGED <<calls, sdRet, callvars>>

\* poweroff's request (base.go:284-286)
SubmitPowerOff ==
    /\ Issue("PowerOff", "")
    /\ pc' = "PowerOff"

---------------------------------------------------------------------------
\* shutdown (base.go:236-276) and stop (base.go:185-202)

\* a stop that powers off whatever shutdown returned
stopAfterShutdown_always(err) == "poweroff"

\* a stop that returns shutdown's error instead of falling back
stopAfterShutdown_never(err) == "return"

\* stop, once shutdown returned err (base.go:194-201)
stopAfterShutdown(err) == IF err = NoErr THEN "return" ELSE "poweroff"

\* a shutdown that goes on to the next signal after an observed power-off
shutdownAfterWait_escalating(timeout, err) ==
    IF err # NoErr /\ ~timeout THEN "return err" ELSE "next signal"

\* a shutdown that takes a failed wait for a power-off
shutdownAfterWait_nilOnError(timeout, err) ==
    IF err = NoErr \/ ~timeout THEN "return nil" ELSE "next signal"

\* shutdown's loop body, once the wait returned (base.go:263-272)
shutdownAfterWait(timeout, err) ==
    IF err = NoErr THEN "return nil"
    ELSE IF ~timeout THEN "return err"
    ELSE "next signal"

\* shutdown up to its first request (base.go:242-257)
shutdownBegin(wt) ==
    /\ wait' = waitWindow(wt)
    /\ stopSigs' = stopSignals(ExecConfig)
    /\ sigIdx' = 1
    /\ Issue("startGuestProgram", stopSignals(ExecConfig)[1])
    /\ pc' = "startGuestProgram"
    /\ UNCHANGED <<ret, sdRet>>

\* shutdown returns err: to the caller, or to stop, which returns nil or
\* falls back to poweroff (base.go:194-201).  log is the log of requests
\* with the answer of the request that just returned.
shutdownReturns(err, log) ==
    /\ sdRet' = err
    /\ IF op = "stop" /\ stopAfterShutdown(err) = "poweroff"
       THEN /\ calls' = Append(log, Request("PowerOff", ""))
            /\ pc' = "PowerOff"
            /\ UNCHANGED ret
       ELSE /\ calls' = log
            /\ Returns(err)

shutdown(wt) ==
    /\ pc = "idle"
    /\ op' = "shutdown"
    /\ Called(wt)
    /\ \/ NotYetExist
       \/ vm # NoVM /\ shutdownBegin(wt)
    /\ UNCHANGED <<infra, snapshot, cancelled, guestOff, lastPoweroffNil>>

stop(wt) ==
    /\ pc = "idle"
    /\ op' = "stop"
    /\ Called(wt)
    /\ \/ NotYetExist
       \/ vm # NoVM /\ shutdownBegin(wt)
    /\ UNCHANGED <<infra, snapshot, cancelled, guestOff, lastPoweroffNil>>

\* startGuestProgram returned err to shutdown (base.go:257-263)
shutdownDispatched(err) ==
    /\ pc = "startGuestProgram"
    /\ op \in {"stop", "shutdown"}
    /\ IF err # NoErr
       THEN shutdownReturns([type |-> "sending kill", sig |-> stopSigs[sigIdx],
                             cause |-> err],
                            Answered(err, FALSE, ""))
       ELSE /\ calls' = Append(Answered(err, FALSE, ""),
                               Request("waitForPowerState", wait))
            /\ pc' = "waitForPowerState"
            /\ UNCHANGED <<ret, sdRet>>
    /\ UNCHANGED <<infra, snapshot, op, callvars, cancelled, guestOff, lastPoweroffNil,
                   callargs, copyvars>>

\* waitForPowerState returned <<timeout, err>> to shutdown (base.go:263-275)
shutdownWaited(timeout, err) ==
    /\ pc = "waitForPowerState"
    /\ op \in {"stop", "shutdown"}
    /\ LET log  == Answered(err, timeout, "")
           step == shutdownAfterWait(timeout, err)
       IN CASE step = "return nil" ->
                 shutdownReturns(NoErr, log) /\ UNCHANGED sigIdx
            [] step = "return err" ->
                 shutdownReturns(err, log) /\ UNCHANGED sigIdx
            [] OTHER ->
                 IF sigIdx < Len(stopSigs)
                 THEN /\ sigIdx' = sigIdx + 1
                      /\ calls' = Append(log, Request("startGuestProgram",
                                                      stopSigs[sigIdx + 1]))
                      /\ pc' = "startGuestProgram"
                      /\ UNCHANGED <<ret, sdRet>>
                 ELSE /\ shutdownReturns([type |-> "failed to shutdown",
                                          ID |-> ExecConfig.ID,
                                          signals |-> stopSigs], log)
                      /\ UNCHANGED sigIdx
    /\ UNCHANGED <<infra, snapshot, op, wait, stopSigs, cancelled, guestOff, lastPoweroffNil,
                   callargs, copyvars>>

---------------------------------------------------------------------------
\* kill (base.go:204-234)

\* a kill that sends the graceful signal
killSignal_term == SIGTERM

\* the signal kill sends (base.go:211)
killSignal == SIGKILL

\* a kill that takes a timed-out wait for a power-off
killAfterWait_nilOnTimeout(timeout, err) ==
    IF err = NoErr \/ timeout THEN "return nil" ELSE "poweroff"

\* kill, once the wait returned (base.go:217-233)
killAfterWait(timeout, err) == IF err = NoErr THEN "return nil" ELSE "poweroff"

kill ==
    /\ pc = "idle"
    /\ op' = "kill"
    /\ \/ NotYetExist
       \/ /\ vm # NoVM
          /\ wait' = killWait
          /\ Issue("startGuestProgram", killSignal)
          /\ pc' = "startGuestProgram"
          /\ UNCHANGED <<ret, sdRet, stopSigs, sigIdx>>
    /\ UNCHANGED <<infra, snapshot, cancelled, guestOff, lastPoweroffNil>>
    /\ Called(<<>>)

\* startGuestProgram returned err to kill (base.go:214-217, 227-233)
killDispatched(err) ==
    /\ pc = "startGuestProgram"
    /\ op = "kill"
    /\ IF err = NoErr
       THEN /\ calls' = Append(Answered(err, FALSE, ""),
                               Request("waitForPowerState", wait))
            /\ pc' = "waitForPowerState"
       ELSE /\ calls' = Append(Answered(err, FALSE, ""), Request("PowerOff", ""))
            /\ pc' = "PowerOff"
    /\ UNCHANGED <<infra, snapshot, op, callvars, cancelled, ret, sdRet, guestOff, lastPoweroffNil,
                   callargs, copyvars>>

\* waitForPowerState returned <<timeout, err>> to kill (base.go:217-233)
killWaited(timeout, err) ==
    /\ pc = "waitForPowerState"
    /\ op = "kill"
    /\ IF killAfterWait(timeout, err) = "return nil"
       THEN /\ calls' = Answered(err, timeout, "")
            /\ Returns(NoErr)
       ELSE /\ calls' = Append(Answered(err, timeout, ""), Request("PowerOff", ""))
            /\ pc' = "PowerOff"
            /\ UNCHANGED ret
    /\ UNCHANGED <<infra, snapshot, op, callvars, cancelled, sdRet, guestOff, lastPoweroffNil,
                   callargs, copyvars>>

---------------------------------------------------------------------------
\* poweroff (base.go:278-318)

poweroff ==
    /\ pc = "idle"
    /\ op' = "poweroff"
    /\ \/ NotYetExist
       \/ /\ vm # NoVM
          /\ SubmitPowerOff
          /\ UNCHANGED <<ret, sdRet, callvars>>
    /\ UNCHANGED <<infra, snapshot, cancelled, guestOff, lastPoweroffNil>>
    /\ Called(<<>>)

\* a poweroff that records the power state it left the VM in
poweroffDone_updating(err, p) ==
    /\ pc = "PowerOff"
    /\ power' = p
    /\ calls' = Answered(err, FALSE, "")
    /\ Returns(poweroffResult(err))
    /\ Runtime' = [PowerState |-> p]
    /\ UNCHANGED <<infraCfg, vm, Config, ExecConfig, op, callvars, cancelled, sdRet, guestOff,
                   lastPoweroffNil, callargs, copyvars>>

\* the power-off task ended with err and left the VM in power state p;
\* poweroff, and with it stop or kill, returns (base.go:288-317, 201, 233)
poweroffDone(err, p) ==
    /\ pc = "PowerOff"
    /\ power' = p
    /\ calls' = Answered(err, FALSE, "")
    /\ Returns(poweroffResult(err))
    /\ UNCHANGED <<infraCfg, snapshot, op, callvars, cancelled, sdRet, guestOff, lastPoweroffNil,
                   callargs, copyvars>>

---------------------------------------------------------------------------
\* start (base.go:151-183)

start ==
    /\ pc = "idle"
    /\ op' = "start"
    /\ \/ NotYetExist
       \/ /\ vm # NoVM
          /\ Issue("PowerOn", "")
          /\ pc' = "PowerOn"
          /\ UNCHANGED <<ret, sdRet, callvars>>
    /\ UNCHANGED <<infra, snapshot, cancelled, guestOff, lastPoweroffNil>>
    /\ Called(<<>>)

\* the power-on task ended with err and left the VM in power state p
\* (base.go:158-173)
startPoweredOn(err, p) ==
    /\ pc = "PowerOn"
    /\ power' = p
    /\ IF err # NoErr
       THEN /\ calls' = Answered(err, FALSE, "")
            /\ Returns(err)
       ELSE /\ calls' = Append(Answered(err, FALSE, ""),
                               Request("WaitForKeyInExtraConfig", "Started"))
            /\ pc' = "WaitForKeyInExtraConfig"
            /\ UNCHANGED ret
    /\ UNCHANGED <<infraCfg, snapshot, op, callvars, cancelled, sdRet, guestOff, lastPoweroffNil,
                   callargs, copyvars>>

\* a start that powers the VM off again when the process did not launch
startKeyRead_rollback(detail, err) ==
    /\ pc = "WaitForKeyInExtraConfig"
    /\ IF startResult(detail, err) = NoErr
       THEN calls' = Answered(err, FALSE, detail) /\ UNCHANGED power
       ELSE /\ calls' = Append(Answered(err, FALSE, detail),
                               [Request("PowerOff", "") EXCEPT !.err = NoErr])
            /\ power' = poweredOff
    /\ Returns(startResult(detail, err))
    /\ UNCHANGED <<infraCfg, snapshot, op, callvars, cancelled, sdRet, guestOff, lastPoweroffNil,
                   callargs, copyvars>>

\* the readiness key was read, or the wait for it failed (base.go:173-182)
startKeyRead(detail, err) ==
    /\ pc = "WaitForKeyInExtraConfig"
    /\ calls' = Answered(err, FALSE, detail)
    /\ Returns(startResult(detail, err))
    /\ UNCHANGED <<infra, snapshot, op, callvars, cancelled, sdRet, guestOff, lastPoweroffNil,
                   callargs, copyvars>>

---------------------------------------------------------------------------
\* refresh (base.go:82-94) and updates (base.go:97-122)

refresh ==
    /\ pc = "idle"
    /\ op' = "refresh"
    /\ \/ NotYetExist
       \/ /\ vm # NoVM
          /\ Issue("Properties", "config,runtime")
          /\ pc' = "Properties"
          /\ UNCHANGED <<ret, sdRet, callvars>>
    /\ UNCHANGED <<infra, snapshot, cancelled, guestOff, lastPoweroffNil>>
    /\ Called(<<>>)

\* a refresh that keeps the ExecConfig it had
updates_staleExecConfig(o) ==
    [vm |-> vm, Config |-> o.Config, Runtime |-> o.Runtime, ExecConfig |-> ExecConfig]

\* the new base that updates builds from the fetched properties o
\* (base.go:111-121)
updates(o) ==
    [vm |-> vm, Config |-> o.Config, Runtime |-> o.Runtime,
     ExecConfig |-> Decode(o.Config)]

\* the fields of containerBase (base.go:52-62)
Fields == {"ExecConfig", "Config", "Runtime", "vm"}

\* the value of field f of *c
Field(f) ==
    CASE f = "ExecConfig" -> ExecConfig
      [] f = "Config" -> Config
      [] f = "Runtime" -> Runtime
      [] OTHER -> [vm |-> vm]

\* vm.Properties returned (base.go:107-121, 85-89): on an error refresh
\* returns it; with no config in the answer updates dereferences nil and
\* panics; else updates returns the new base, which is to be copied over *c
refreshFetched(err, o) ==
    /\ pc = "Properties"
    /\ calls' = Answered(err, FALSE, o)
    /\ IF err # NoErr
       THEN Returns(err) /\ UNCHANGED base
       ELSE IF o.Config = NilConfig
       THEN pc' = "panic" /\ UNCHANGED <<ret, base>>
       ELSE pc' = "copy" /\ base' = updates(o) /\ UNCHANGED ret
    /\ UNCHANGED <<infra, snapshot, op, callvars, cancelled, sdRet, guestOff,
                   lastPoweroffNil, callargs, written, reads>>

\* "*c = *base" (base.go:92): the copy is no atomic operation; it overwrites
\* the fields of *c one after the other, in an order the code does not fix.
\* refresh returns nil after the last one (base.go:93).
refreshCopy(f) ==
    /\ pc = "copy"
    /\ f \notin written
    /\ written' = written \cup {f}
    /\ ExecConfig' = IF f = "ExecConfig" THEN base.ExecConfig ELSE ExecConfig
    /\ Config' = IF f = "Config" THEN base.Config ELSE Config
    /\ Runtime' = IF f = "Runtime" THEN base.Runtime ELSE Runtime
    /\ vm' = IF f = "vm" THEN base.vm ELSE vm
    /\ IF written' = Fields
       THEN Returns(NoErr)
       ELSE UNCHANGED <<pc, ret>>
    /\ UNCHANGED <<infra, op, callvars, cancelled, calls, sdRet, guestOff,
                   lastPoweroffNil, callargs, base, reads>>

\* where the copy stands: before its first write, during, or after its last
CopyPhase ==
    IF written = {} THEN "before"
    ELSE IF written = Fields THEN "after"
    ELSE "during"

\* another goroutine that holds the same *containerBase reads one of its
\* fields (base.go:48-51) while refresh runs or has just returned
ReaderReads(f) ==
    /\ op = "refresh"
    /\ pc \in {"Properties", "copy", "done"}
    /\ vm # NoVM
    /\ f \in {"ExecConfig", "Config", "Runtime"}
    /\ \A r \in reads : r.field # f
    /\ reads' = reads \cup {[field |-> f, value |-> Field(f), at |-> CopyPhase]}
    /\ UNCHANGED <<infra, snapshot, op, pc, callvars, cancelled, ret, calls, sdRet,
                   guestOff, lastPoweroffNil, callargs, base, written>>

---------------------------------------------------------------------------
\* The caller and the environment

\* The copy of refresh takes no request to the infrastructure: the steps of
\* the environment below are left out while it runs, where they change
\* nothing the copy or a reader sees.

\* the caller takes the result; the next call starts afresh
Return ==
    /\ pc = "done"
    /\ pc' = "idle"
    /\ op' = "none"
    /\ wait' = 0
    /\ stopSigs' = <<>>
    /\ sigIdx' = 0
    /\ cancelled' = FALSE
    /\ ret' = NotRun
    /\ calls' = <<>>
    /\ sdRet' = NotRun
    /\ guestOff' = "no"
    /\ lastPoweroffNil' = (op = "poweroff" /\ ret = NoErr)
    /\ entry' = NoBase
    /\ waitTime' = <<>>
    /\ base' = NoBase
    /\ written' = {}
    /\ reads' = {}
    /\ UNCHANGED <<infra, snapshot>>

\* the caller cancels the context it passed to the call in progress
Cancel ==
    /\ pc \notin {"idle", "done", "copy", "panic"}
    /\ ~cancelled
    /\ cancelled' = TRUE
    /\ UNCHANGED <<infra, snapshot, op, pc, callvars, ret, calls, sdRet, guestOff, lastPoweroffNil,
                   callargs, copyvars>>

\* the guest shuts itself down (on a signal, or of its own accord)
GuestPowersOff ==
    /\ pc \notin {"done", "copy", "panic"}
    /\ power = poweredOn
    /\ power' = poweredOff
    /\ guestOff' = IF pc = "idle" THEN guestOff
                   ELSE IF pc = "PowerOff" THEN "duringTask"
                   ELSE "beforeTask"
    /\ UNCHANGED <<infraCfg, snapshot, op, pc, callvars, cancelled, ret, calls, sdRet,
                   lastPoweroffNil, callargs, copyvars>>

\* someone else reconfigures the VM
ConfigChanges(sig) ==
    /\ pc \notin {"done", "copy", "panic"}
    /\ infraCfg.gen < MaxGen
    /\ infraCfg' = [gen |-> infraCfg.gen + 1, StopSignal |-> sig]
    /\ UNCHANGED <<power, snapshot, op, pc, callvars, cancelled, ret, calls, sdRet,
                   guestOff, lastPoweroffNil,
                   callargs, copyvars>>

Next ==
    \/ \E wt \in WaitTimes : stop(wt)
    \/ \E wt \in WaitTimes : shutdown(wt)
    \/ kill
    \/ poweroff
    \/ start
    \/ refresh
    \/ \E err \in StartGuestProgramResults : shutdownDispatched(err)
    \/ \E o \in WaitForPowerStateOutcomes :
          LET r == waitForPowerState(o.ctxErr, o.err) IN shutdownWaited(r[1], r[2])
    \/ \E err \in StartGuestProgramResults : killDispatched(err)
    \/ \E o \in WaitForPowerStateOutcomes :
          LET r == waitForPowerState(o.ctxErr, o.err) IN killWaited(r[1], r[2])
    \/ \E o \in PowerOffOutcomes : poweroffDone(o.err, o.power)
    \/ \E o \in PowerOnOutcomes : startPoweredOn(o.err, o.power)
    \/ \E o \in WaitForKeyOutcomes : startKeyRead(o.detail, o.err)
    \/ \E o \in PropertiesOutcomes : refreshFetched(o.err, o.o)
    \/ \E f \in Fields : refreshCopy(f)
    \/ Return
    \/ Cancel
    \/ GuestPowersOff
    \/ \E sig \in StopSignalValues : ConfigChanges(sig)

Spec == Init /\ [][Next]_vars

\* the same with a second goroutine reading the containerBase during refresh
NextConcurrent ==
    \/ Next
    \/ \E f \in Fields : ReaderReads(f)

SpecConcurrent == Init /\ [][NextConcurrent]_vars

\* the steps the call in progress takes by itself: the request it is blocked
\* on returns (with success, failure or timeout) and the code runs on to the
\* next request or to its return; refresh copies the next field
Progress ==
    \/ \E err \in StartGuestProgramResults : shutdownDispatched(err)
    \/ \E o \in WaitForPowerStateOutcomes :
          LET r == waitForPowerState(o.ctxErr, o.err) IN shutdownWaited(r[1], r[2])
    \/ \E err \in StartGuestProgramResults : killDispatched(err)
    \/ \E o \in WaitForPowerStateOutcomes :
          LET r == waitForPowerState(o.ctxErr, o.err) IN killWaited(r[1], r[2])
    \/ \E o \in PowerOffOutcomes : poweroffDone(o.err, o.power)
    \/ \E o \in PowerOnOutcomes : startPoweredOn(o.err, o.power)
    \/ \E o \in WaitForKeyOutcomes : startKeyRead(o.detail, o.err)
    \/ \E o \in PropertiesOutcomes : refreshFetched(o.err, o.o)
    \/ \E f \in Fields : refreshCopy(f)

\* every request to the infrastructure returns, and the goroutine of the call
\* keeps running
SpecFair == Spec /\ WF_vars(Progress)

---------------------------------------------------------------------------
\* Properties

Done == pc = "done"

\* the operation in progress runs shutdown
InShutdown == op \in {"stop", "shutdown"} /\ vm # NoVM

\* the first signal shutdown is to send, from the snapshot's session config
GracefulSignal == IF ExecConfig.StopSignal = "" THEN "TERM" ELSE ExecConfig.StopSignal

\* the faults of a power-off task that prove the VM is off: the
\* InvalidPowerState of a VM that is off, and the config fault whose first
\* message is the guest-shutdown key
AlreadyOff(e) ==
    /\ e.type = "task.Error"
    /\ e.fault.kind = "InvalidPowerState"
    /\ e.fault.ExistingState = "poweredOff"

GuestShutdownFirst(e) ==
    /\ e.type = "task.Error"
    /\ e.fault.kind = "GenericVmConfigFault"
    /\ Len(e.fault.FaultMessage) > 0
    /\ e.fault.FaultMessage[1] = vmNotSuspendedKey

\* ---- C1
\* C1: kill never returns nil while the instance is powered on: when kill
\* returns nil the instance is powered off, and either the wait after KILL
\* observed the power-off or one hard power-off was made.
C1_KillNilMeansPoweredOff ==
    (Done /\ op = "kill" /\ ret = NoErr) =>
        /\ power = "poweredOff"
        /\ \/ Len(waits) = 1 /\ waits[1].err = NoErr /\ Len(poweroffs) = 0
           \/ Len(poweroffs) = 1 /\ poweroffs[1].err # Pending

\* kill returned nil after the wait timed out and the hard power-off succeeded
C1_Witness ==
    /\ Done /\ op = "kill" /\ ret = NoErr
    /\ Len(waits) = 1 /\ waits[1].timeout
    /\ taskErr = NoErr
    /\ power = "poweredOff"

\* ---- C2
\* C2: when shutdown returns nil, stop submits no power-off task and returns
\* nil.
C2_StopNoPoweroffAfterShutdown ==
    (op = "stop" /\ sdRet = NoErr) =>
        /\ Len(poweroffs) = 0
        /\ Done
        /\ ret = NoErr

\* stop returned after the power-off was observed on the second signal
C2_Witness ==
    /\ op = "stop" /\ sdRet = NoErr /\ Done
    /\ Len(dispatched) = 2 /\ Len(waits) = 2
    /\ waits[2].err = NoErr

\* ---- C3
\* C3: when shutdown fails, stop submits exactly one power-off task and
\* returns the result of poweroff, never shutdown's error: nil when the task
\* succeeded, the task's error when poweroff does not absorb it.
C3_StopFallsBackToPoweroff ==
    (op = "stop" /\ sdRet \notin {NotRun, NoErr}) =>
        /\ Len(poweroffs) = 1
        /\ calls[Len(calls)].req = "PowerOff"
        /\ pc \in {"PowerOff", "done"}
        /\ Done =>
             /\ ret # sdRet
             /\ taskErr = NoErr => ret = NoErr
             /\ ret \in {NoErr, taskErr}
             /\ (~AlreadyOff(taskErr) /\ ~GuestShutdownFirst(taskErr)) => ret = taskErr

\* neither signal powered the guest off, the power-off succeeded, stop returned nil
C3_Witness ==
    /\ op = "stop" /\ Done
    /\ sdRet.type = "failed to shutdown"
    /\ Len(waits) = 2 /\ waits[1].timeout /\ waits[2].timeout
    /\ taskErr = NoErr
    /\ ret = NoErr

\* ---- C4
\* C4: shutdown dispatches the configured stop signal (TERM when none is
\* configured) and then KILL, in that order and nothing else; when the first
\* dispatch fails shutdown returns an error with no second dispatch and no
\* wait.
C4_SignalOrder ==
    InShutdown =>
        /\ Len(dispatched) \in 1..2
        /\ dispatched[1] = GracefulSignal
        /\ Len(dispatched) = 2 => dispatched[2] = "KILL"
        /\ calls[1].req = "startGuestProgram"
        /\ calls[1].err \notin {Pending, NoErr} =>
              /\ Len(dispatched) = 1
              /\ Len(waits) = 0
              /\ sdRet \notin {NotRun, NoErr}
              /\ op = "shutdown" => (Done /\ ret = sdRet /\ Len(calls) = 1)

\* the dispatch of TERM failed and shutdown returned
C4_Witness ==
    /\ op = "shutdown" /\ Done
    /\ ExecConfig.StopSignal = ""
    /\ dispatched = <<"TERM">>
    /\ calls[1].err = InfraErr("startGuestProgram")
    /\ ret.type = "sending kill"

\* ---- C5
\* C5: once a wait inside shutdown observes the power-off, shutdown returns
\* nil at once: that wait is the call's last request, no signal follows it
\* and no power-off task is submitted; with no configured stop signal and a
\* guest that powers off on TERM, only TERM is dispatched.
C5_StopsAtFirstPowerOff ==
    InShutdown =>
        \A i \in 1..Len(waits) :
            waits[i].err = NoErr =>
                /\ i = Len(waits)
                /\ Len(dispatched) = i
                /\ calls[Len(calls)].req = "waitForPowerState"
                /\ Len(poweroffs) = 0
                /\ Done
                /\ ret = NoErr
                /\ (i = 1 /\ ExecConfig.StopSignal = "") => dispatched = <<"TERM">>

\* scenario 1: stop, no configured signal, the guest powered off on TERM
C5_Witness ==
    /\ op = "stop" /\ Done /\ ret = NoErr
    /\ ExecConfig.StopSignal = ""
    /\ dispatched = <<"TERM">>
    /\ Len(waits) = 1 /\ waits[1].err = NoErr
    /\ Len(poweroffs) = 0

\* ---- C6
\* C6: shutdown goes on to the next signal if and only if the wait for the
\* current one ended by timeout (its deadline elapsed); a wait that failed
\* with any other error makes shutdown return that error with no further
\* dispatch; when both waits time out shutdown returns the aggregate error
\* after exactly two dispatches.
C6_EscalatesOnlyOnTimeout ==
    InShutdown =>
        /\ \A i \in 1..Len(waits) :
              waits[i].err # Pending =>
                  /\ (Len(dispatched) > i) <=> (i = 1 /\ waits[i].err = DeadlineExceeded)
                  /\ waits[i].err \notin {NoErr, DeadlineExceeded} =>
                        (sdRet = waits[i].err /\ Len(dispatched) = i)
        /\ (Len(waits) = 2 /\ waits[1].err = DeadlineExceeded
                           /\ waits[2].err = DeadlineExceeded) =>
              (sdRet.type = "failed to shutdown" /\ Len(dispatched) = 2)

\* ---- C7
\* C7: a poweroff whose task is answered with InvalidPowerState, existing
\* state poweredOff, returns nil and leaves the instance powered off; and
\* every poweroff that follows a poweroff that returned nil, and whose task
\* the infrastructure answers, returns nil as well.
C7_PoweroffIdempotent ==
    (Done /\ op = "poweroff" /\ Len(poweroffs) = 1) =>
        /\ taskErr = TaskError(InvalidPowerState("poweredOff")) =>
              (ret = NoErr /\ power = "poweredOff")
        /\ (lastPoweroffNil /\ taskErr.type \in {"nil", "task.Error"}) =>
              (ret = NoErr /\ power = "poweredOff")

\* a second poweroff in a row found the instance off and returned nil
C7_Witness ==
    /\ Done /\ op = "poweroff" /\ lastPoweroffNil
    /\ taskErr = TaskError(InvalidPowerState("poweredOff"))
    /\ ret = NoErr
    /\ power = "poweredOff"

\* ---- C8
\* C8 as stated: poweroff returns nil exactly when the task succeeded, or
\* failed with InvalidPowerState/poweredOff, or failed with a generic config
\* fault that carries the guest-shutdown key in any of its fault messages;
\* otherwise it returns the task's error unchanged.
C8_AbsorbsAnyMessageWithKey ==
    (Done /\ Len(poweroffs) = 1) =>
        /\ ret = NoErr <=>
              \/ taskErr = NoErr
              \/ AlreadyOff(taskErr)
              \/ /\ taskErr.type = "task.Error"
                 /\ taskErr.fault.kind = "GenericVmConfigFault"
                 /\ \E i \in 1..Len(taskErr.fault.FaultMessage) :
                       taskErr.fault.FaultMessage[i] = vmNotSuspendedKey
        /\ ret # NoErr => ret = taskErr

\* C8 as amended: poweroff returns nil exactly when the task succeeded, or
\* failed with InvalidPowerState/poweredOff, or failed with a generic config
\* fault whose first fault message has the guest-shutdown key; otherwise
\* it returns the task's error unchanged.
C8_AbsorbsFirstMessageWithKey ==
    (Done /\ Len(poweroffs) = 1) =>
        /\ ret = NoErr <=>
              \/ taskErr = NoErr
              \/ AlreadyOff(taskErr)
              \/ GuestShutdownFirst(taskErr)
        /\ ret # NoErr => ret = taskErr

\* the key is in the second fault message only: poweroff returned the error
C8_Witness ==
    /\ Done /\ op = "poweroff"
    /\ taskErr = TaskError(GenericVmConfigFault(<<otherKey, vmNotSuspendedKey>>))
    /\ ret = taskErr

\* ---- C9
\* C9: a hard power-off racing with a guest shutdown returns nil whenever
\* the infrastructure answers the task: the guest went off before the task
\* was submitted, or while it ran, or the task completed first.
C9_GuestShutdownRaceAbsorbed ==
    (Done /\ Len(poweroffs) = 1 /\ taskErr.type \in {"nil", "task.Error"}) =>
        /\ guestOff \in {"beforeTask", "duringTask"} =>
              (ret = NoErr /\ power = "poweredOff")
        /\ (guestOff = "no" /\ taskErr = NoErr) =>
              (ret = NoErr /\ power = "poweredOff")

\* stop fell back to poweroff and the guest shut down while the task ran
C9_Witness ==
    /\ Done /\ op = "stop"
    /\ guestOff = "duringTask"
    /\ GuestShutdownFirst(taskErr)
    /\ ret = NoErr

\* ---- C10
\* C10: kill dispatches one signal, KILL, and waits with a 10 second window;
\* when the dispatch fails or the wait does not observe the power-off, kill
\* submits one power-off task and returns poweroff's result; when the wait
\* observes the power-off kill returns nil and submits no power-off task.
C10_KillProtocol ==
    (op = "kill" /\ vm # NoVM) =>
        /\ dispatched = <<"KILL">>
        /\ calls[1].req = "startGuestProgram"
        /\ Len(waits) <= 1
        /\ \A i \in 1..Len(waits) : waits[i].arg = 10
        /\ Len(poweroffs) <= 1
        /\ Done =>
             IF calls[1].err = NoErr /\ waits[1].err = NoErr
             THEN ret = NoErr /\ Len(poweroffs) = 0 /\ Len(calls) = 2
             ELSE /\ Len(poweroffs) = 1
                  /\ Len(waits) = (IF calls[1].err = NoErr THEN 1 ELSE 0)
                  /\ ret \in {NoErr, taskErr}
                  /\ ret = NoErr <=> \/ taskErr = NoErr
                                     \/ AlreadyOff(taskErr)
                                     \/ GuestShutdownFirst(taskErr)

\* the wait failed with an error that is no timeout and kill powered off
C10_Witness ==
    /\ op = "kill" /\ Done
    /\ Len(waits) = 1 /\ waits[1].err = InfraErr("waitForPowerState")
    /\ ~waits[1].timeout
    /\ Len(poweroffs) = 1
    /\ ret = taskErr /\ ret # NoErr

\* the containerBase as one value
Base == [vm |-> vm, Config |-> Config, Runtime |-> Runtime, ExecConfig |-> ExecConfig]

\* ---- C11
\* C11: on a containerBase with no instance handle every operation (refresh,
\* start, stop, kill, shutdown, poweroff) returns NotYetExistError with the
\* container's ID at once: it makes no request to the infrastructure and
\* leaves the containerBase as it was.
C11_NoHandleNotYetExist ==
    (vm = "nil" /\ op # "none") =>
        /\ Done
        /\ ret = [type |-> "NotYetExist", ID |-> ExecConfig.ID]
        /\ calls = <<>>
        /\ Base = entry

\* refresh on a containerBase that has a config and no handle
C11_Witness ==
    /\ vm = "nil" /\ op = "refresh" /\ Done
    /\ ExecConfig.ID = "c1"
    /\ ret = [type |-> "NotYetExist", ID |-> "c1"]
    /\ calls = <<>>


\* C12: refresh is all-or-nothing.  After refresh returned nil the snapshot
\* holds the handle it had, the Config and the Runtime of the one answer of
\* the one vm.Properties request, and the ExecConfig decoded from that Config
\* (the container's ID, that Config's stop signal); after refresh returned an
\* error, and when updates panicked, all four fields are what they were at
\* the call.
fetched == calls[1].detail

C12_RefreshAllOrNothing ==
    (op = "refresh" /\ vm # "nil" /\ pc \in {"done", "panic"}) =>
        /\ Len(calls) = 1
        /\ calls[1].req = "Properties"
        /\ IF pc = "done" /\ ret = NoErr
           THEN /\ calls[1].err = NoErr
                /\ vm = entry.vm
                /\ Config = fetched.Config
                /\ Runtime = fetched.Runtime
                /\ ExecConfig = [ID |-> "c1", StopSignal |-> fetched.Config.StopSignal,
                                 gen |-> fetched.Config.gen]
           ELSE /\ Base = entry
                /\ pc = "done" => (ret = calls[1].err /\ ret # NoErr)

\* a refresh returned nil and replaced a Config, a Runtime and an ExecConfig
\* that had all gone stale
C12_Witness ==
    /\ op = "refresh" /\ Done /\ ret = NoErr
    /\ Config # entry.Config
    /\ Runtime # entry.Runtime
    /\ ExecConfig.StopSignal # entry.ExecConfig.StopSignal
    /\ ExecConfig.StopSignal = Config.StopSignal


\* C13: a reader of the snapshot's fields during one refresh never observes a
\* mix.  Once the reader has read Config, Runtime and ExecConfig, the three
\* values are those the snapshot had when refresh was called, or they are
\* those of the new base this refresh fetched.
ReadValue(f) == (CHOOSE r \in reads : r.field = f).value

C13_ReaderNeverSeesMix ==
    (Cardinality(reads) = 3) =>
        \/ /\ ReadValue("Config") = entry.Config
           /\ ReadValue("Runtime") = entry.Runtime
           /\ ReadValue("ExecConfig") = entry.ExecConfig
        \/ /\ base # NoBase
           /\ ReadValue("Config") = base.Config
           /\ ReadValue("Runtime") = base.Runtime
           /\ ReadValue("ExecConfig") = base.ExecConfig


\* C14: start returns nil exactly when the power-on task succeeded and the
\* readiness key was read as "true".  A failure of the power-on task is
\* returned as it is, with no readiness wait; a readiness wait that failed or
\* timed out gives an error that carries the cause; any other value read gives
\* an error whose text is that value.
C14_StartResult ==
    (op = "start" /\ Done /\ vm # "nil") =>
        /\ calls[1].req = "PowerOn"
        /\ IF calls[1].err # NoErr
           THEN /\ ret = calls[1].err
                /\ Len(calls) = 1
           ELSE /\ Len(calls) = 2
                /\ calls[2].req = "WaitForKeyInExtraConfig"
                /\ calls[2].err # NoErr =>
                      /\ ret.type = "unable to wait for process launch status"
                      /\ ret.cause = calls[2].err
                /\ (calls[2].err = NoErr /\ calls[2].detail # "true") =>
                      ret = [type |-> "errors.New", text |-> calls[2].detail]
                /\ (ret = NoErr) <=> (calls[2].err = NoErr /\ calls[2].detail = "true")

\* scenario 5: powered on, the guest reports "false", start returns an error
\* whose text is "false"
C14_Witness ==
    /\ op = "start" /\ Done
    /\ Len(calls) = 2 /\ calls[1].err = NoErr
    /\ calls[2].err = NoErr /\ calls[2].detail = "false"
    /\ ret = [type |-> "errors.New", text |-> "false"]


\* a request of the call failed, and its error is neither the timeout of a
\* wait for the power state nor a fault of the power-off task that proves the
\* VM is off
Failed(c) ==
    /\ c.err \notin {NoErr, Pending}
    /\ ~(c.req = "waitForPowerState" /\ c.err = DeadlineExceeded)
    /\ ~(c.req = "PowerOff" /\ (AlreadyOff(c.err) \/ GuestShutdownFirst(c.err)))

FailedRequests == {i \in 1..Len(calls) : Failed(calls[i])}

\* C15 as stated: no operation swallows a failure.  Whenever a request made
\* during an operation failed (other than by a wait timeout or a power-off
\* idempotency fault), the operation returns a non-nil error.
C15_NoFailureSwallowed ==
    (Done /\ FailedRequests # {}) => ret # NoErr

\* C15 amended: refresh, start, shutdown and poweroff return a non-nil error
\* whenever one of their requests failed so.  stop and kill return the error
\* of their hard power-off when that failed so; after a failed signal dispatch
\* or a failed wait they go on to the hard power-off and return nil exactly
\* when the power-off did not fail so.
C15_FailureReturnedOrPoweredOff ==
    (Done /\ FailedRequests # {}) =>
        IF op \in {"stop", "kill"}
        THEN /\ Len(poweroffs) = 1
             /\ calls[Len(calls)].req = "PowerOff"
             /\ IF Failed(calls[Len(calls)])
                THEN ret = calls[Len(calls)].err
                ELSE ret = NoErr
        ELSE ret # NoErr

\* kill could not dispatch its signal, powered the VM off and returned nil
C15_Witness ==
    /\ op = "kill" /\ Done /\ ret = NoErr
    /\ Len(calls) = 2
    /\ calls[1].req = "startGuestProgram" /\ calls[1].err = InfraErr("startGuestProgram")
    /\ calls[2].req = "PowerOff" /\ calls[2].err = NoErr
    /\ power = "poweredOff"


\* C16: the wait window.  Every wait of shutdown, called directly or by stop,
\* lasts waitTime seconds when the caller gave a waitTime above zero and 10
\* seconds when it gave none, zero or a negative one; the waits after the
\* first and after the second signal have the same window; every wait of kill
\* lasts 10 seconds.
C16_WaitWindow ==
    \A i \in 1..Len(waits) :
        waits[i].arg = IF op \in {"stop", "shutdown"} /\ waitTime # <<>> /\ waitTime[1] > 0
                       THEN waitTime[1]
                       ELSE 10

\* stop with a waitTime of 3 waited 3 seconds after each of its two signals
C16_Witness ==
    /\ op = "stop" /\ waitTime = <<3>>
    /\ Len(waits) = 2
    /\ waits[1].arg = 3 /\ waits[2].arg = 3
    /\ waits[2].err # Pending


\* C17: waitForPowerState reports timedOut only when its own deadline ended
\* the wait.  Every wait that returned gave (false, nil) when the power state
\* was reached, (true, err) when the deadline elapsed and (false, err) when
\* it failed otherwise, the cancellation of the caller's context included;
\* and shutdown sent a further signal only after a wait that the deadline
\* ended.
C17_TimedOutOnlyOnDeadline ==
    /\ \A i \in 1..Len(waits) :
          waits[i].err # Pending =>
              waits[i].timeout = (waits[i].err = DeadlineExceeded)
    /\ InShutdown =>
          \A i \in 1..Len(waits) :
              Len(dispatched) > i => waits[i].err = DeadlineExceeded


\* C18: within one stop, shutdown or kill the requests are strictly
\* sequential.  At most one request is outstanding, the last one issued; in
\* shutdown a signal after the first is dispatched right after a wait that
\* ended by timeout, its deadline having elapsed; and stop's power-off is
\* issued after shutdown returned, as the last request.
C18_StrictlySequential ==
    (op \in {"stop", "shutdown", "kill"}) =>
        /\ \A i \in 1..Len(calls) : calls[i].err = Pending => i = Len(calls)
        /\ InShutdown =>
              \A j \in 2..Len(calls) :
                  calls[j].req = "startGuestProgram" =>
                      /\ calls[j - 1].req = "waitForPowerState"
                      /\ calls[j - 1].err = DeadlineExceeded
        /\ op = "stop" =>
              \A j \in 1..Len(calls) :
                  calls[j].req = "PowerOff" => (sdRet # NotRun /\ j = Len(calls))


\* C19: only refresh writes the snapshot.  No step taken outside a refresh
\* (of start, shutdown, kill, stop or poweroff, whatever their outcome, or
\* between calls) changes the handle, the Config, the Runtime or the
\* ExecConfig; and no step at all, those of refresh included, changes the
\* handle.
C19_OnlyRefreshWrites ==
    [][/\ vm' = vm
       /\ op # "refresh" => snapshot' = snapshot]_vars

\* stop returned nil, the VM is off, and the snapshot still holds what it
\* held at the call: a Runtime that says poweredOn
C19_Witness ==
    /\ op = "stop" /\ Done /\ ret = NoErr
    /\ power = "poweredOff"
    /\ Runtime.PowerState = "poweredOn"
    /\ Base = entry


\* C20: start performs no rollback.  start issues a power-on and a wait for
\* the readiness key and nothing else, no power-off in particular; so when
\* the power-on succeeded and start returned an error, the VM is powered on,
\* unless the guest shut down by itself meanwhile.
C20_StartNoRollback ==
    (op = "start") =>
        /\ \A i \in 1..Len(calls) : calls[i].req \in {"PowerOn", "WaitForKeyInExtraConfig"}
        /\ Len(poweroffs) = 0
        /\ (Done /\ vm # "nil" /\ calls[1].err = NoErr /\ ret # NoErr /\ guestOff = "no") =>
              power = "poweredOn"

\* the power-on succeeded, the readiness wait timed out, start returned an
\* error and the VM is on
C20_Witness ==
    /\ op = "start" /\ Done
    /\ Len(calls) = 2 /\ calls[1].err = NoErr
    /\ calls[2].err = DeadlineExceeded
    /\ ret # NoErr
    /\ power = "poweredOn"


\* C21: every call ends after a bounded number of requests, provided every
\* request returns.  shutdown dispatches at most 2 signals and waits at most
\* twice, and submits no power-off; stop does the same and then submits at
\* most 1 power-off; kill makes at most 1 dispatch, 1 wait and 1 power-off;
\* start makes at most 2 requests, refresh and poweroff 1; and every call
\* that was made returns (or, for a refresh answered without a config,
\* panics).
RequestBounds ==
    /\ op = "shutdown" =>
          Len(dispatched) <= 2 /\ Len(waits) <= 2 /\ Len(poweroffs) = 0 /\ Len(calls) <= 4
    /\ op = "stop" =>
          Len(dispatched) <= 2 /\ Len(waits) <= 2 /\ Len(poweroffs) <= 1 /\ Len(calls) <= 5
    /\ op = "kill" =>
          Len(dispatched) <= 1 /\ Len(waits) <= 1 /\ Len(poweroffs) <= 1 /\ Len(calls) <= 3
    /\ op = "start" => Len(calls) <= 2
    /\ op \in {"refresh", "poweroff"} => Len(calls) <= 1

Ended == pc \in {"done", "panic"}

C21_BoundedAndTerminates ==
    /\ []RequestBounds
    /\ (op # "none") ~> Ended

\* a stop that used up its bound and returned: two dispatches, two waits that
\* timed out, one power-off
C21_Witness ==
    /\ op = "stop" /\ Done
    /\ Len(dispatched) = 2 /\ Len(waits) = 2 /\ Len(poweroffs) = 1
    /\ Len(calls) = 5
    /\ waits[1].err = DeadlineExceeded /\ waits[2].err = DeadlineExceeded

=============================================================================
